---- MODULE Spec2Model ----
(***************************************************************************)
(* Interview voice bot backend.                                            *)
(*                                                                         *)
(* Two route implementations are modelled:                                 *)
(*   "strict"      src/app.py            (relational store + document      *)
(*                                        store, externally owned          *)
(*                                        candidate registry)              *)
(*   "permissive"  src/unnamed/part_000  (single "responses" table)        *)
(*                                                                         *)
(* Every store / bucket / file-system call of a route handler is one       *)
(* atomic step; a request is a small process whose position is kept in     *)
(* reqs[r].pc.  The handlers hold no lock and the stores, the bucket and   *)
(* the static directory are shared by all server workers, so requests of   *)
(* different clients served by different workers interleave between any    *)
(* two such calls (within one event loop only submit_answer yields, at     *)
(* "await file.read()", after it has read the session).                    *)
(***************************************************************************)
EXTENDS Integers, Sequences, FiniteSets, TLC

\* ------------------------------------------------------------------ bounds
MaxInflight == 2     \* request slots served concurrently
MaxStarts == 2       \* start_interview requests served per candidate
MaxRecords == 2      \* answers submitted per candidate in SpecSeq
ConcRecords == 3     \* answers submitted for the candidate in Spec
LongRecords == 7     \* answers submitted by the single candidate of SpecLong
MaxLeaked == 2       \* temporary files left behind by failed requests
MaxClock == 2        \* seconds the clock may reach (permissive variant)
MaxResponses == 3    \* rows of the "responses" table (permissive variant)

\* --------------------------------------------------------------- constants
ReqIds == 1..MaxInflight

\* app.py 80-87 (identical in part_000 68-75)
QUESTIONS ==
  << "How many years of experience do you have?",
     "What is your current CTC?",
     "What is your expected CTC?",
     "Which is your current location?",
     "Are you open to relocation?",
     "What is your notice period?" >>

\* len(QUESTIONS)
NumQuestions == Len(QUESTIONS)

\* Python indexing QUESTIONS[i]: zero based, negative indexes count from the
\* end, anything else raises IndexError.
InRange(i) == i >= -NumQuestions /\ i < NumQuestions

QuestionAt(i) == IF i >= 0 THEN QUESTIONS[i + 1] ELSE QUESTIONS[NumQuestions + i + 1]

\* The Mongo "candidates" register (candidates_collection): owned by another
\* system, only read here.  email -> str(candidate["_id"]).
Candidates == {"c1", "c2"}

Emails == {"a@x.io", "b@x.io", "nobody@x.io"}

candidates_collection == [e \in {"a@x.io", "b@x.io"} |-> IF e = "a@x.io" THEN "c1" ELSE "c2"]

\* Raw decoder outputs (result.text) the transcription engine is taken to give.
RawTexts == {"", "  ", " yes "}

\* str.strip() on the raw texts above.
Strip(t) == CASE t = "  " -> ""
              [] t = " yes " -> "yes"
              [] OTHER -> t

VARIABLES
  variant,               \* which implementation serves the requests
  candidates,            \* Supabase "candidates": rows per candidate_id
  sessions,              \* Supabase "sessions": per candidate, the q_index of
                         \*   its rows in the order a select returns them
  interviews,            \* Supabase "interviews": per candidate, its rows
  interviews_collection, \* Mongo "interviews": per candidate, its documents
  responses,             \* Supabase "responses" (permissive variant)
  static_files,          \* static/q_<candidate>_<idx>.mp3 on disk
  bucket,                \* keys of the objects in the storage bucket
  clock,                 \* int(time.time()), read by the permissive start
  tts_calls,             \* gTTS invocations per (candidate, idx)
  leaked,                \* temp files on disk that no running request owns
  reqs,                  \* the requests in progress
  out                    \* the response most recently sent

vars == << variant, candidates, sessions, interviews, interviews_collection,
           responses, static_files, bucket, clock, tts_calls, leaked,
           reqs, out >>

strictVars == << candidates, sessions, interviews, interviews_collection >>

Idle == [op |-> "idle", pc |-> "idle"]

\* Candidate ids of the permissive variant are the clock values at which they
\* were issued; 0 is an id that was never issued.
PCandidates == 0..MaxClock

CandidatesOf(v) == IF v = "strict" THEN Candidates ELSE PCandidates

KeysOf(v) == CandidatesOf(v) \X (0..(NumQuestions - 1))

Init ==
  /\ variant \in {"strict", "permissive"}
  /\ candidates = [c \in Candidates |-> 0]
  /\ sessions = [c \in Candidates |-> << >>]
  /\ interviews = [c \in Candidates |-> << >>]
  /\ interviews_collection = [c \in Candidates |-> << >>]
  /\ responses = << >>
  /\ static_files = {}
  /\ bucket = {}
  /\ clock = 1
  /\ tts_calls = [k \in KeysOf(variant) |-> 0]
  /\ leaked = 0
  /\ reqs = [r \in ReqIds |-> Idle]
  /\ out = [op |-> "none"]

\* ------------------------------------------------------------------ helpers
\* A request slot may take a new request.  conc = FALSE is the
\* one-request-at-a-time regime: slot 1 only, and nothing else in progress.
Free(r, conc) ==
  /\ reqs[r].op = "idle"
  /\ conc \/ (r = 1 /\ \A s \in ReqIds : reqs[s].op = "idle")

InProgress(op, c) == Cardinality({s \in ReqIds : reqs[s].op = op /\ reqs[s].c = c})

\* The response leaves the handler.
Respond(resp) == out' = resp

\* Insert x into sequence s at position i (1 = front, Len(s)+1 = back).
InsertAt(s, i, x) == SubSeq(s, 1, i - 1) \o << x >> \o SubSeq(s, i, Len(s))

\* ROUTE /start_interview  (strict) ------------------------------------------
\* (variant of FindCandidate: the filter is dropped, any document matches)
FindCandidate_first(email) == [found |-> TRUE, id |-> "c1"]

\* candidates_collection.find_one({"email": req.email})
FindCandidate(email) ==
  IF email \in DOMAIN candidates_collection
    THEN [found |-> TRUE, id |-> candidates_collection[email]]
    ELSE [found |-> FALSE, id |-> "-"]

\* HTTPException(404, f"Candidate with email {req.email} not found ...")
StartNotFound(email) == [op |-> "start", c |-> "-", http |-> 404, email |-> email]

\* find_one on the register, 404 when absent; select on Supabase candidates.
StartLookup(r, email, conc) ==
  /\ variant = "strict"
  /\ Free(r, conc)
  /\ LET candidate == FindCandidate(email) IN
     IF ~candidate.found
       THEN /\ Respond(StartNotFound(email))
            /\ UNCHANGED reqs
       ELSE LET cid == candidate.id IN
            /\ Len(interviews_collection[cid]) + InProgress("start", cid) < MaxStarts
            /\ reqs' = [reqs EXCEPT ![r] =
                 [op |-> "start", c |-> cid, email |-> email,
                  pc |-> IF candidates[cid] = 0 THEN "sync" ELSE "session"]]
            /\ UNCHANGED out
  /\ UNCHANGED << variant, strictVars, responses, static_files, bucket,
                  clock, tts_calls, leaked >>

\* "if not existing.data": insert the candidate row.
StartSync(r) ==
  /\ reqs[r].op = "start" /\ reqs[r].pc = "sync"
  /\ candidates' = [candidates EXCEPT ![reqs[r].c] = @ + 1]
  /\ reqs' = [reqs EXCEPT ![r].pc = "session"]
  /\ UNCHANGED << variant, sessions, interviews, interviews_collection,
                  responses, static_files, bucket, clock, tts_calls,
                  leaked, out >>

\* The new session row {candidate_id, q_index: 0}.  The table has no ordering
\* column and the selects give no ORDER BY, so the place the new row takes
\* among the candidate's rows in a later select is the store's choice.
NewSessionRows(rows, i) == InsertAt(rows, i, 0)

StartSession(r) ==
  /\ reqs[r].op = "start" /\ reqs[r].pc = "session"
  /\ \E i \in 1..(Len(sessions[reqs[r].c]) + 1) :
       sessions' = [sessions EXCEPT ![reqs[r].c] = NewSessionRows(@, i)]
  /\ reqs' = [reqs EXCEPT ![r].pc = "interview"]
  /\ UNCHANGED << variant, candidates, interviews, interviews_collection,
                  responses, static_files, bucket, clock, tts_calls,
                  leaked, out >>

\* interviews_collection.insert_one({... "status": "pending"}): a document
\* without a "qa" field.
PendingDoc == [has_qa |-> FALSE, qa |-> << >>]

StartInterview(r) ==
  /\ reqs[r].op = "start" /\ reqs[r].pc = "interview"
  /\ interviews_collection' =
       [interviews_collection EXCEPT ![reqs[r].c] = Append(@, PendingDoc)]
  /\ Respond([op |-> "start", c |-> reqs[r].c, http |-> 200])
  /\ reqs' = [reqs EXCEPT ![r] = Idle]
  /\ UNCHANGED << variant, candidates, sessions, interviews, responses,
                  static_files, bucket, clock, tts_calls, leaked >>

\* ROUTE /question/{candidate_id}  (strict) ----------------------------------
\* session_res.data[0]["q_index"]
FirstRow(rows) == Head(rows)

\* (variant of IsDone: off by one)
IsDone_early(idx) == idx >= NumQuestions - 1

\* "if idx >= len(QUESTIONS)": the interview is finished.
IsDone(idx) == idx >= NumQuestions

\* path_in_bucket = f"{candidate_id}/bot_q_{idx}.mp3"
QuestionKey(c, idx) == << c, "bot_q", idx >>

\* (variant of QuestionUrl: the key carries a part that differs per upload)
QuestionUrl_fresh(c, idx) == << "public", << c, "bot_q", idx, Cardinality(bucket) >> >>

\* get_public_url(path_in_bucket)
QuestionUrl(c, idx) == << "public", QuestionKey(c, idx) >>

QuestionResponse(c, idx) ==
  [op |-> "question", c |-> c, http |-> 200, done |-> FALSE,
   question_index |-> idx, question |-> QUESTIONS[idx + 1],
   audio_url |-> QuestionUrl(c, idx)]

DoneResponse(c) == [op |-> "question", c |-> c, http |-> 200, done |-> TRUE]

NotFound(op, c) == [op |-> op, c |-> c, http |-> 404]

\* select the session; 404 / done / look whether the mp3 is already on disk.
GetQuestion(r, c, conc) ==
  /\ variant = "strict"
  /\ Free(r, conc)
  /\ IF sessions[c] = << >>
       THEN /\ Respond(NotFound("question", c))
            /\ UNCHANGED reqs
       ELSE LET idx == FirstRow(sessions[c]) IN
            IF IsDone(idx)
              THEN /\ Respond(DoneResponse(c))
                   /\ UNCHANGED reqs
              ELSE /\ reqs' = [reqs EXCEPT ![r] =
                        [op |-> "question", c |-> c, pc |-> "serve", idx |-> idx,
                         exists |-> (<< c, idx >> \in static_files)]]
                   /\ UNCHANGED out
  /\ UNCHANGED << variant, strictVars, responses, static_files, bucket,
                  clock, tts_calls, leaked >>

\* gTTS(...).save(filepath) when the file was not there, then the upsert
\* upload of the file and the response.
ServeQuestion(r) ==
  /\ reqs[r].op = "question" /\ reqs[r].pc = "serve"
  /\ LET c == reqs[r].c
         idx == reqs[r].idx
     IN /\ IF reqs[r].exists
             THEN UNCHANGED << static_files, tts_calls >>
             ELSE /\ static_files' = static_files \cup {<< c, idx >>}
                  /\ tts_calls' = [tts_calls EXCEPT ![<< c, idx >>] = @ + 1]
        /\ bucket' = bucket \cup {QuestionKey(c, idx)}
        /\ Respond(QuestionResponse(c, idx))
  /\ reqs' = [reqs EXCEPT ![r] = Idle]
  /\ UNCHANGED << variant, strictVars, responses, clock, leaked >>

\* ROUTE /submit_answer/{candidate_id}/{question_index}  (strict) ------------
\* (variant of Transcribe: an empty transcript is classified "ok")
Transcribe_okEmpty(raises, raw1, raw2) ==
  IF raises = "decode" \/ (raises = "retry" /\ Strip(raw1) = "")
    THEN [text |-> "(Transcription failed)", status |-> "error"]
    ELSE IF Strip(raw1) # "" THEN [text |-> Strip(raw1), status |-> "ok"]
         ELSE IF Strip(raw2) # "" THEN [text |-> Strip(raw2), status |-> "ok"]
              ELSE [text |-> "(Could not detect speech)", status |-> "ok"]

\* The try block around Whisper: decode, strip, one retry when the text is
\* empty, classification; any exception gives the "failed" text.
\* raises: "no", "decode" (model load, load_audio or the first decode raises)
\* or "retry" (the second decode raises, if it is reached).
Transcribe(raises, raw1, raw2) ==
  LET t1 == Strip(raw1)
      t2 == IF t1 = "" THEN Strip(raw2) ELSE t1
  IN IF raises = "decode" \/ (raises = "retry" /\ t1 = "")
       THEN [text |-> "(Transcription failed)", status |-> "error"]
       ELSE IF t2 # ""
              THEN [text |-> t2, status |-> "ok"]
              ELSE [text |-> "(Could not detect speech)", status |-> "error"]

\* path_in_bucket = f"{candidate_id}/{uuid4().hex}{ext}": a key no earlier
\* upload used, here the number of the upload among the candidate's.
AnswerKey(c, k) == << c, "answer", k >>

AnswerUrl(c, k) == << "public", AnswerKey(c, k) >>

Uploaded(c) == Cardinality({k \in bucket : k[1] = c /\ k[2] = "answer"})

\* (variant of ServerError: the exception is swallowed)
ServerError_ok(op, c) == [op |-> op, c |-> c, http |-> 200]

ServerError(op, c) == [op |-> op, c |-> c, http |-> 500]

\* (variant of Submit: the upload is saved before the session is looked up,
\* and stays on disk when there is none)
Submit_late(r, c, qi, conv_ok, raises, raw1, raw2, cap, conc) ==
  /\ variant = "strict"
  /\ Free(r, conc)
  /\ IF sessions[c] = << >>
       THEN /\ leaked < MaxLeaked
            /\ leaked' = leaked + 1
            /\ Respond(NotFound("submit", c))
            /\ UNCHANGED reqs
       ELSE /\ Uploaded(c) + InProgress("submit", c) < cap
            /\ IF conv_ok
                 THEN LET t == Transcribe(raises, raw1, raw2) IN
                      /\ reqs' = [reqs EXCEPT ![r] =
                           [op |-> "submit", c |-> c, pc |-> "upload",
                            question_index |-> qi,
                            q_index |-> FirstRow(sessions[c]),
                            text |-> t.text, status |-> t.status,
                            url |-> << >>]]
                      /\ UNCHANGED << out, leaked >>
                 ELSE /\ leaked < MaxLeaked
                      /\ leaked' = leaked + 1
                      /\ Respond(ServerError("submit", c))
                      /\ UNCHANGED reqs
  /\ UNCHANGED << variant, strictVars, responses, static_files, bucket,
                  clock, tts_calls >>

\* select the session (404 when none), save the upload to a temp file,
\* convert_to_wav (a failure propagates, the saved upload stays on disk),
\* transcribe.
Submit(r, c, qi, conv_ok, raises, raw1, raw2, cap, conc) ==
  /\ variant = "strict"
  /\ Free(r, conc)
  /\ IF sessions[c] = << >>
       THEN /\ Respond(NotFound("submit", c))
            /\ UNCHANGED << reqs, leaked >>
       ELSE /\ Uploaded(c) + InProgress("submit", c) < cap
            /\ IF conv_ok
                 THEN LET t == Transcribe(raises, raw1, raw2) IN
                      /\ reqs' = [reqs EXCEPT ![r] =
                           [op |-> "submit", c |-> c, pc |-> "upload",
                            question_index |-> qi,
                            q_index |-> FirstRow(sessions[c]),
                            text |-> t.text, status |-> t.status,
                            url |-> << >>]]
                      /\ UNCHANGED << out, leaked >>
                 ELSE /\ leaked < MaxLeaked
                      /\ leaked' = leaked + 1
                      /\ Respond(ServerError("submit", c))
                      /\ UNCHANGED reqs
  /\ UNCHANGED << variant, strictVars, responses, static_files, bucket,
                  clock, tts_calls >>

\* Upload of the original audio under a fresh key, then os.remove of both
\* temp files.  An upload error propagates before the removes are reached.
SubmitUpload(r, up_ok) ==
  /\ reqs[r].op = "submit" /\ reqs[r].pc = "upload"
  /\ LET c == reqs[r].c IN
     IF up_ok
       THEN /\ bucket' = bucket \cup {AnswerKey(c, Uploaded(c) + 1)}
            /\ reqs' = [reqs EXCEPT ![r].pc = "insert",
                                    ![r].url = AnswerUrl(c, Uploaded(c) + 1)]
            /\ UNCHANGED << out, leaked >>
       ELSE /\ leaked + 2 <= MaxLeaked
            /\ leaked' = leaked + 2
            /\ Respond(ServerError("submit", c))
            /\ reqs' = [reqs EXCEPT ![r] = Idle]
            /\ UNCHANGED bucket
  /\ UNCHANGED << variant, strictVars, responses, static_files, clock,
                  tts_calls >>

\* (variant of AnswerRow: the question is the one the session is at)
AnswerRow_session(req) ==
  [question |-> QuestionAt(req.q_index), answer_text |-> req.text,
   status |-> req.status, answer_audio_url |-> req.url]

\* The row inserted into Supabase "interviews".
AnswerRow(req) ==
  [question |-> QuestionAt(req.question_index), answer_text |-> req.text,
   status |-> req.status, answer_audio_url |-> req.url]

\* QUESTIONS[question_index] raises IndexError for an index out of range;
\* otherwise the insert.
SubmitInsert(r) ==
  /\ reqs[r].op = "submit" /\ reqs[r].pc = "insert"
  /\ LET c == reqs[r].c IN
     IF InRange(reqs[r].question_index)
       THEN /\ interviews' = [interviews EXCEPT ![c] = Append(@, AnswerRow(reqs[r]))]
            /\ reqs' = [reqs EXCEPT ![r].pc = "push"]
            /\ UNCHANGED out
       ELSE /\ Respond(ServerError("submit", c))
            /\ reqs' = [reqs EXCEPT ![r] = Idle]
            /\ UNCHANGED interviews
  /\ UNCHANGED << variant, candidates, sessions, interviews_collection,
                  responses, static_files, bucket, clock, tts_calls,
                  leaked >>

\* qa_entry = [f"Q: {question}", f"A: {text}"]
QaEntry(question, text) == << << "Q: ", question >>, << "A: ", text >> >>

\* (variant of PushQa: $set instead of $push)
PushQa_set(docs, entry) ==
  IF docs = << >>
    THEN << [has_qa |-> TRUE, qa |-> << entry >>] >>
    ELSE [docs EXCEPT ![1] = [has_qa |-> TRUE, qa |-> << entry >>]]

\* update_one({candidate_id}, {$push: {qa: entry}}, upsert=True): the first
\* matching document gets the entry pushed (the array is created when the
\* field is missing); with no matching document one is inserted.
PushQa(docs, entry) ==
  IF docs = << >>
    THEN << [has_qa |-> TRUE, qa |-> << entry >>] >>
    ELSE [docs EXCEPT ![1] = [has_qa |-> TRUE, qa |-> Append(@.qa, entry)]]

SubmitResponse(req) ==
  [op |-> "submit", c |-> req.c, http |-> 200, answer_text |-> req.text,
   status |-> req.status]

\* The Mongo push; with status "error" nothing follows but the response.
SubmitPush(r) ==
  /\ reqs[r].op = "submit" /\ reqs[r].pc = "push"
  /\ LET c == reqs[r].c IN
     /\ interviews_collection' =
          [interviews_collection EXCEPT ![c] =
             PushQa(@, QaEntry(QuestionAt(reqs[r].question_index), reqs[r].text))]
     /\ IF reqs[r].status = "ok"
          THEN /\ reqs' = [reqs EXCEPT ![r].pc = "advance"]
               /\ UNCHANGED out
          ELSE /\ reqs' = [reqs EXCEPT ![r] = Idle]
               /\ Respond(SubmitResponse(reqs[r]))
  /\ UNCHANGED << variant, candidates, sessions, interviews, responses,
                  static_files, bucket, clock, tts_calls, leaked >>

\* (variant of Advance: the counter is stepped twice)
Advance_two(rows, q_index) == [i \in DOMAIN rows |-> q_index + 2]

\* update({"q_index": session["q_index"] + 1}).eq("candidate_id", ...):
\* every row of the candidate gets the value read at the start plus one.
Advance(rows, q_index) == [i \in DOMAIN rows |-> q_index + 1]

\* (variant of SubmitAdvance: the row is read again when it is written)
SubmitAdvance_fresh(r) ==
  /\ reqs[r].op = "submit" /\ reqs[r].pc = "advance"
  /\ sessions' = [sessions EXCEPT ![reqs[r].c] =
                    IF @ = << >> THEN @ ELSE Advance(@, FirstRow(@))]
  /\ Respond(SubmitResponse(reqs[r]))
  /\ reqs' = [reqs EXCEPT ![r] = Idle]
  /\ UNCHANGED << variant, candidates, interviews, interviews_collection,
                  responses, static_files, bucket, clock, tts_calls,
                  leaked >>

SubmitAdvance(r) ==
  /\ reqs[r].op = "submit" /\ reqs[r].pc = "advance"
  /\ sessions' = [sessions EXCEPT ![reqs[r].c] = Advance(@, reqs[r].q_index)]
  /\ Respond(SubmitResponse(reqs[r]))
  /\ reqs' = [reqs EXCEPT ![r] = Idle]
  /\ UNCHANGED << variant, candidates, interviews, interviews_collection,
                  responses, static_files, bucket, clock, tts_calls,
                  leaked >>

\* ROUTE /finish_interview/{candidate_id}  (strict) --------------------------
Finish(r, c, conc) ==
  /\ variant = "strict"
  /\ Free(r, conc)
  /\ reqs' = [reqs EXCEPT ![r] =
       [op |-> "finish", c |-> c, pc |-> "delete", answers |-> interviews[c]]]
  /\ UNCHANGED << variant, strictVars, responses, static_files, bucket,
                  clock, tts_calls, leaked, out >>

\* (variant of DeleteSessions: one row is deleted)
DeleteSessions_one(rows) == IF rows = << >> THEN << >> ELSE Tail(rows)

\* sessions.delete().eq("candidate_id", ...): every row of the candidate.
DeleteSessions(rows) == << >>

FinishDelete(r) ==
  /\ reqs[r].op = "finish" /\ reqs[r].pc = "delete"
  /\ sessions' = [sessions EXCEPT ![reqs[r].c] = DeleteSessions(@)]
  /\ Respond([op |-> "finish", c |-> reqs[r].c, http |-> 200,
              answers |-> reqs[r].answers])
  /\ reqs' = [reqs EXCEPT ![r] = Idle]
  /\ UNCHANGED << variant, candidates, interviews, interviews_collection,
                  responses, static_files, bucket, clock, tts_calls,
                  leaked >>

\* ROUTE /get_answers/{candidate_id}  (strict) -------------------------------
AnswersResponse(c, qa) == [op |-> "answers", c |-> c, http |-> 200, qa |-> qa]

\* find_one in Mongo; the document's qa when it has one.
GetAnswers(r, c, conc) ==
  /\ variant = "strict"
  /\ Free(r, conc)
  /\ LET docs == interviews_collection[c] IN
     IF docs # << >> /\ docs[1].has_qa
       THEN /\ Respond(AnswersResponse(c, docs[1].qa))
            /\ UNCHANGED reqs
       ELSE /\ reqs' = [reqs EXCEPT ![r] = [op |-> "answers", c |-> c, pc |-> "fallback"]]
            /\ UNCHANGED out
  /\ UNCHANGED << variant, strictVars, responses, static_files, bucket,
                  clock, tts_calls, leaked >>

\* The fallback transcript built from the Supabase rows.
Transcript(rows) ==
  [i \in DOMAIN rows |-> QaEntry(rows[i].question, rows[i].answer_text)]

AnswersFallback(r) ==
  /\ reqs[r].op = "answers" /\ reqs[r].pc = "fallback"
  /\ Respond(AnswersResponse(reqs[r].c, Transcript(interviews[reqs[r].c])))
  /\ reqs' = [reqs EXCEPT ![r] = Idle]
  /\ UNCHANGED << variant, strictVars, responses, static_files, bucket,
                  clock, tts_calls, leaked >>

\* ========================= permissive variant (src/unnamed/part_000) =======
\* Rows of "responses" of one candidate, in table order.
RowsOf(c) == SelectSeq(responses, LAMBDA row : row.candidate_id = c)

\* Rows carrying an email (the placeholder rows written by start).
RowsWithEmail(email) == SelectSeq(responses, LAMBDA row : row.email = email)

\* ROUTE /start_interview  (permissive) --------------------------------------
\* select by email: reuse the candidate_id found, else take int(time.time()).
PStart(r, email, conc) ==
  /\ variant = "permissive"
  /\ Free(r, conc)
  /\ LET existing == RowsWithEmail(email) IN
     IF existing # << >>
       THEN /\ Respond([op |-> "start", c |-> existing[1].candidate_id,
                        http |-> 200])
            /\ UNCHANGED reqs
       ELSE /\ Len(responses) + Cardinality({s \in ReqIds : reqs[s].op # "idle"}) < MaxResponses
            /\ reqs' = [reqs EXCEPT ![r] =
                 [op |-> "start", c |-> clock, pc |-> "placeholder", email |-> email]]
            /\ UNCHANGED out
  /\ UNCHANGED << variant, strictVars, responses, static_files, bucket, clock,
                  tts_calls, leaked >>

\* The placeholder row: q_index -1 "means not yet started".
Placeholder(c, email) ==
  [candidate_id |-> c, email |-> email, q_index |-> -1, question |-> "",
   answer_text |-> "", answer_audio_url |-> << >>]

PStartInsert(r) ==
  /\ reqs[r].op = "start" /\ reqs[r].pc = "placeholder"
  /\ responses' = Append(responses, Placeholder(reqs[r].c, reqs[r].email))
  /\ Respond([op |-> "start", c |-> reqs[r].c, http |-> 200])
  /\ reqs' = [reqs EXCEPT ![r] = Idle]
  /\ UNCHANGED << variant, strictVars, static_files, bucket, clock, tts_calls,
                  leaked >>

\* A second passes.
Tick ==
  /\ variant = "permissive"
  /\ clock < MaxClock
  /\ clock' = clock + 1
  /\ UNCHANGED << variant, strictVars, responses, static_files, bucket,
                  tts_calls, leaked, reqs, out >>

\* ROUTE /question/{candidate_id}  (permissive) ------------------------------
\* order("q_index", desc=True).limit(1): the largest q_index of the
\* candidate's rows; idx is that plus one, 0 when there is no row.
RECURSIVE MaxQ(_)
MaxQ(rows) ==
  IF Len(rows) = 1 THEN rows[1].q_index
  ELSE LET m == MaxQ(Tail(rows)) IN IF rows[1].q_index >= m THEN rows[1].q_index ELSE m

NextIdx(c) == (IF RowsOf(c) = << >> THEN -1 ELSE MaxQ(RowsOf(c))) + 1

PGetQuestion(r, c, conc) ==
  /\ variant = "permissive"
  /\ Free(r, conc)
  /\ LET idx == NextIdx(c) IN
     IF IsDone(idx)
       THEN /\ Respond(DoneResponse(c))
            /\ UNCHANGED reqs
       ELSE /\ reqs' = [reqs EXCEPT ![r] =
                 [op |-> "question", c |-> c, pc |-> "serve", idx |-> idx,
                  exists |-> (<< c, idx >> \in static_files)]]
            /\ UNCHANGED out
  /\ UNCHANGED << variant, strictVars, responses, static_files, bucket, clock,
                  tts_calls, leaked >>

\* ROUTE /submit_answer/{candidate_id}/{question_index}  (permissive) --------
\* One decode, no retry: the stripped text or the "could not detect" text;
\* an exception gives the "failed" text.
PTranscribe(raises, raw1) ==
  IF raises THEN "(transcription failed)"
  ELSE IF Strip(raw1) # "" THEN Strip(raw1) ELSE "(Could not detect speech)"

PSubmit(r, c, qi, conv_ok, raises, raw1, conc) ==
  /\ variant = "permissive"
  /\ Free(r, conc)
  /\ Len(responses) + Cardinality({s \in ReqIds : reqs[s].op # "idle"}) < MaxResponses
  /\ IF conv_ok
       THEN /\ reqs' = [reqs EXCEPT ![r] =
                 [op |-> "submit", c |-> c, pc |-> "pupload", question_index |-> qi,
                  text |-> PTranscribe(raises, raw1), url |-> << >>]]
            /\ UNCHANGED << out, leaked >>
       ELSE /\ leaked < MaxLeaked
            /\ leaked' = leaked + 1
            /\ Respond(ServerError("submit", c))
            /\ UNCHANGED reqs
  /\ UNCHANGED << variant, strictVars, responses, static_files, bucket, clock,
                  tts_calls >>

\* path_in_bucket = f"{candidate_id}/answer_q{question_index}{ext}", upsert.
PAnswerKey(c, qi) == << c, "answer_q", qi >>

PSubmitUpload(r, up_ok) ==
  /\ reqs[r].op = "submit" /\ reqs[r].pc = "pupload"
  /\ LET c == reqs[r].c IN
     IF up_ok
       THEN /\ bucket' = bucket \cup {PAnswerKey(c, reqs[r].question_index)}
            /\ reqs' = [reqs EXCEPT ![r].pc = "pinsert",
                          ![r].url = << "public", PAnswerKey(c, reqs[r].question_index) >>]
            /\ UNCHANGED << out, leaked >>
       ELSE /\ leaked + 2 <= MaxLeaked
            /\ leaked' = leaked + 2
            /\ Respond(ServerError("submit", c))
            /\ reqs' = [reqs EXCEPT ![r] = Idle]
            /\ UNCHANGED bucket
  /\ UNCHANGED << variant, strictVars, responses, static_files, clock,
                  tts_calls >>

PAnswerRow(req) ==
  [candidate_id |-> req.c, email |-> "", q_index |-> req.question_index,
   question |-> QuestionAt(req.question_index), answer_text |-> req.text,
   answer_audio_url |-> req.url]

\* The insert into "responses"; the response says status "ok" whatever the
\* transcription gave.
PSubmitInsert(r) ==
  /\ reqs[r].op = "submit" /\ reqs[r].pc = "pinsert"
  /\ LET c == reqs[r].c IN
     IF InRange(reqs[r].question_index)
       THEN /\ responses' = Append(responses, PAnswerRow(reqs[r]))
            /\ Respond([op |-> "submit", c |-> c, http |-> 200,
                        answer_text |-> reqs[r].text, status |-> "ok"])
       ELSE /\ Respond(ServerError("submit", c))
            /\ UNCHANGED responses
  /\ reqs' = [reqs EXCEPT ![r] = Idle]
  /\ UNCHANGED << variant, strictVars, static_files, bucket, clock, tts_calls,
                  leaked >>

\* ROUTE /finish_interview and /get_answers  (permissive) --------------------
\* order("q_index"): ascending, rows of equal q_index in table order.
RECURSIVE SortByQ(_)
SortByQ(rows) ==
  IF rows = << >> THEN << >>
  ELSE LET m == CHOOSE i \in DOMAIN rows :
                  /\ \A j \in DOMAIN rows : rows[i].q_index <= rows[j].q_index
                  /\ \A j \in 1..(i - 1) : rows[j].q_index > rows[i].q_index
       IN << rows[m] >> \o SortByQ(SubSeq(rows, 1, m - 1) \o SubSeq(rows, m + 1, Len(rows)))

PFinish(r, c, conc) ==
  /\ variant = "permissive"
  /\ Free(r, conc)
  /\ Respond([op |-> "finish", c |-> c, http |-> 200,
              answers |-> SortByQ(RowsOf(c))])
  /\ UNCHANGED << variant, strictVars, responses, static_files, bucket, clock,
                  tts_calls, leaked, reqs >>

\* The flat transcript: "Q: ..." when the row has a question, "A: ..." when
\* it has an answer text.
RECURSIVE FlatTranscript(_)
FlatTranscript(rows) ==
  IF rows = << >> THEN << >>
  ELSE (IF rows[1].question # "" THEN << << "Q: ", rows[1].question >> >> ELSE << >>)
       \o (IF rows[1].answer_text # "" THEN << << "A: ", rows[1].answer_text >> >> ELSE << >>)
       \o FlatTranscript(Tail(rows))

PGetAnswers(r, c, conc) ==
  /\ variant = "permissive"
  /\ Free(r, conc)
  /\ IF RowsOf(c) = << >>
       THEN Respond([op |-> "answers", c |-> c, http |-> 200, answers |-> << >>])
       ELSE Respond([op |-> "answers", c |-> c, http |-> 200,
                     answers |-> SortByQ(RowsOf(c)),
                     transcript |-> FlatTranscript(SortByQ(RowsOf(c)))])
  /\ UNCHANGED << variant, strictVars, responses, static_files, bucket, clock,
                  tts_calls, leaked, reqs >>

\* ============================================================ specifications
\* The index a client that follows the protocol sends: the one it was asked,
\* the last one once the interview is done.
AskedIndex(c) ==
  IF sessions[c] = << >> THEN 0
  ELSE IF IsDone(FirstRow(sessions[c])) THEN NumQuestions - 1 ELSE FirstRow(sessions[c])

Raises == {"no", "decode", "retry"}

\* Requests of several clients about one candidate of the strict variant,
\* interleaved at every store call: start, submit, finish, get_answers.
\* Transcoder, transcription engine and bucket never raise.
InitStrict == Init /\ variant = "strict"

Next ==
  \E r \in ReqIds :
    \/ \E email \in {"a@x.io", "nobody@x.io"} : StartLookup(r, email, TRUE)
    \/ StartSync(r)
    \/ StartSession(r)
    \/ StartInterview(r)
    \/ \E raw1 \in RawTexts :
         Submit(r, "c1", 0, TRUE, "no", raw1, "", ConcRecords, TRUE)
    \/ SubmitUpload(r, TRUE)
    \/ SubmitInsert(r)
    \/ SubmitPush(r)
    \/ SubmitAdvance(r)
    \/ Finish(r, "c1", TRUE)
    \/ FinishDelete(r)
    \/ GetAnswers(r, "c1", TRUE)
    \/ AnswersFallback(r)

Spec == InitStrict /\ [][Next]_vars

\* The requests that write the session or the Answer Records of one candidate
\* of the strict variant, interleaved at every store call: start, submit
\* (every answer transcribed), finish.
NextRace ==
  \E r \in ReqIds :
    \/ StartLookup(r, "a@x.io", TRUE)
    \/ StartSync(r)
    \/ StartSession(r)
    \/ StartInterview(r)
    \/ Submit(r, "c1", 0, TRUE, "no", " yes ", "", MaxRecords, TRUE)
    \/ SubmitUpload(r, TRUE)
    \/ SubmitInsert(r)
    \/ SubmitPush(r)
    \/ SubmitAdvance(r)
    \/ Finish(r, "c1", TRUE)
    \/ FinishDelete(r)

SpecRace == InitStrict /\ [][NextRace]_vars

\* One request at a time (a request is taken only when none is in progress),
\* both variants, every route, one candidate.  Strict: question_index in range
\* or past the end; the transcription engine may raise or return nothing.
\* Transcoder and bucket never fail.
NextSeq ==
  \/ \E email \in {"a@x.io", "nobody@x.io"} : StartLookup(1, email, FALSE)
  \/ StartSync(1)
  \/ StartSession(1)
  \/ StartInterview(1)
  \/ GetQuestion(1, "c1", FALSE)
  \/ ServeQuestion(1)
  \/ \E qi \in {0, NumQuestions}, raises \in Raises,
        raw1 \in RawTexts, raw2 \in RawTexts :
       Submit(1, "c1", qi, TRUE, raises, raw1, raw2, MaxRecords, FALSE)
  \/ SubmitUpload(1, TRUE)
  \/ SubmitInsert(1)
  \/ SubmitPush(1)
  \/ SubmitAdvance(1)
  \/ Finish(1, "c1", FALSE)
  \/ FinishDelete(1)
  \/ GetAnswers(1, "c1", FALSE)
  \/ AnswersFallback(1)
  \/ PStart(1, "a@x.io", FALSE)
  \/ PStartInsert(1)
  \/ Tick
  \/ PGetQuestion(1, 1, FALSE)
  \/ \E qi \in {0, 1}, raises \in BOOLEAN, raw1 \in RawTexts :
       PSubmit(1, 1, qi, TRUE, raises, raw1, FALSE)
  \/ PSubmitUpload(1, TRUE)
  \/ PSubmitInsert(1)
  \/ PFinish(1, 1, FALSE)
  \/ PGetAnswers(1, 1, FALSE)

SpecSeq == Init /\ [][NextSeq]_vars

\* One request at a time, strict variant, two candidates: both are started
\* and finished, the first is asked and answers question 0, with the engine
\* working or raising, and its answers are fetched.
NextTwo ==
  \/ \E email \in Emails : StartLookup(1, email, FALSE)
  \/ StartSync(1)
  \/ StartSession(1)
  \/ StartInterview(1)
  \/ GetQuestion(1, "c1", FALSE)
  \/ ServeQuestion(1)
  \/ \E raises \in {"no", "decode"} :
       Submit(1, "c1", 0, TRUE, raises, " yes ", "", MaxRecords, FALSE)
  \/ SubmitUpload(1, TRUE)
  \/ SubmitInsert(1)
  \/ SubmitPush(1)
  \/ SubmitAdvance(1)
  \/ \E c \in Candidates : Finish(1, c, FALSE)
  \/ FinishDelete(1)
  \/ \E c \in Candidates : GetAnswers(1, c, FALSE)
  \/ AnswersFallback(1)

SpecTwo == InitStrict /\ [][NextTwo]_vars

\* One candidate of the strict variant going through the whole interview, one
\* request at a time: the client answers the question it was asked.
Asked(c) ==
  /\ sessions[c] # << >>
  /\ IsDone(FirstRow(sessions[c])) \/ << c, FirstRow(sessions[c]) >> \in static_files

NextLong ==
  \/ StartLookup(1, "a@x.io", FALSE)
  \/ StartSync(1)
  \/ StartSession(1)
  \/ StartInterview(1)
  \/ GetQuestion(1, "c1", FALSE)
  \/ ServeQuestion(1)
  \/ \E raw1 \in RawTexts :
       /\ Asked("c1")
       /\ Submit(1, "c1", AskedIndex("c1"), TRUE, "no", raw1, "", LongRecords, FALSE)
  \/ SubmitUpload(1, TRUE)
  \/ SubmitInsert(1)
  \/ SubmitPush(1)
  \/ SubmitAdvance(1)
  \/ Finish(1, "c1", FALSE)
  \/ FinishDelete(1)

SpecLong == InitStrict /\ [][NextLong]_vars

\* One request at a time, both variants, one candidate; the transcoder and the
\* bucket may fail, the transcription engine may raise.
NextFault ==
  \/ StartLookup(1, "a@x.io", FALSE)
  \/ StartSync(1)
  \/ StartSession(1)
  \/ StartInterview(1)
  \/ \E conv_ok \in BOOLEAN, raises \in {"no", "decode"} :
       Submit(1, "c1", 0, conv_ok, raises, " yes ", "", MaxRecords, FALSE)
  \/ \E up_ok \in BOOLEAN : SubmitUpload(1, up_ok)
  \/ SubmitInsert(1)
  \/ SubmitPush(1)
  \/ SubmitAdvance(1)
  \/ Finish(1, "c1", FALSE)
  \/ FinishDelete(1)
  \/ PStart(1, "a@x.io", FALSE)
  \/ PStartInsert(1)
  \/ \E conv_ok \in BOOLEAN, raises \in BOOLEAN :
       PSubmit(1, 1, 0, conv_ok, raises, " yes ", FALSE)
  \/ \E up_ok \in BOOLEAN : PSubmitUpload(1, up_ok)
  \/ PSubmitInsert(1)

SpecFault == Init /\ [][NextFault]_vars

\* One request at a time, both variants, one candidate answering questions 0
\* and 1 in any order and any number of times, and fetching the answers.
NextOrder ==
  \/ StartLookup(1, "a@x.io", FALSE)
  \/ StartSync(1)
  \/ StartSession(1)
  \/ StartInterview(1)
  \/ \E qi \in {0, 1} :
       Submit(1, "c1", qi, TRUE, "no", " yes ", "", MaxRecords, FALSE)
  \/ SubmitUpload(1, TRUE)
  \/ SubmitInsert(1)
  \/ SubmitPush(1)
  \/ SubmitAdvance(1)
  \/ GetAnswers(1, "c1", FALSE)
  \/ AnswersFallback(1)
  \/ PStart(1, "a@x.io", FALSE)
  \/ PStartInsert(1)
  \/ \E qi \in {0, 1} : PSubmit(1, 1, qi, TRUE, FALSE, " yes ", FALSE)
  \/ PSubmitUpload(1, TRUE)
  \/ PSubmitInsert(1)
  \/ PGetAnswers(1, 1, FALSE)

SpecOrder == Init /\ [][NextOrder]_vars

\* next_question requests of several clients, interleaved between the look
\* for the cached file and the synthesis, both variants, one candidate.
NextAsk ==
  \E r \in ReqIds :
    \/ StartLookup(r, "a@x.io", TRUE)
    \/ StartSync(r)
    \/ StartSession(r)
    \/ StartInterview(r)
    \/ GetQuestion(r, "c1", TRUE)
    \/ PGetQuestion(r, 1, TRUE)
    \/ ServeQuestion(r)

SpecAsk == Init /\ [][NextAsk]_vars

\* =================================================================== claims
\* Request r took its last step: the response is in out'.
Ends(r, op) == reqs[r].op = op /\ reqs'[r].op = "idle"

\* Request r arrived and is now in progress.
Begins(r, op) == reqs[r].op = "idle" /\ reqs'[r].op = op

\* A request was answered in the step it arrived in.
Immediate(op) == reqs' = reqs /\ out'.op = op

NoneInProgress == \A r \in ReqIds : reqs[r].op = "idle"

\* Number of the candidate's Answer Records with status "ok".
OkCount(c) == Cardinality({i \in DOMAIN interviews[c] : interviews[c][i].status = "ok"})

FailureTexts == {"(Could not detect speech)", "(Transcription failed)"}

\* C1 (SpecSeq): with requests served one at a time, a submit_answer that
\* completes with status "ok" leaves the q_index a session lookup returns
\* exactly one higher than it was; every other step of a submit_answer
\* request (arrival, upload, insert, push, a completion with status "error",
\* a failure, the 404) leaves the sessions table as it was.
C1_SubmitAdvancesByOne ==
  [][variant = "strict" =>
       /\ \A r \in ReqIds :
            /\ reqs[r].op = "submit" =>
                 IF reqs'[r].op = "idle" /\ out'.http = 200 /\ reqs[r].status = "ok"
                   THEN /\ sessions[reqs[r].c] # << >>
                        /\ sessions'[reqs[r].c] # << >>
                        /\ FirstRow(sessions'[reqs[r].c]) = FirstRow(sessions[reqs[r].c]) + 1
                        /\ out'.status = "ok"
                   ELSE sessions' = sessions
            /\ Begins(r, "submit") => sessions' = sessions
       /\ Immediate("submit") => sessions' = sessions]_vars

C1_Witness ==
  /\ variant = "strict"
  /\ out.op = "submit" /\ out.http = 200 /\ out.status = "ok"
  /\ sessions["c1"] = << 2 >>

\* C2 (SpecSeq): whenever a candidate has a session and no request is in
\* progress, the q_index of every session row of the candidate equals the
\* number of the candidate's Answer Records with status "ok".
C2_QIndexIsOkCount ==
  \A c \in Candidates :
    (variant = "strict" /\ NoneInProgress) =>
      \A i \in DOMAIN sessions[c] : sessions[c][i] = OkCount(c)

\* C3 (Spec): in a step that neither inserts nor deletes session rows, no
\* session row's q_index gets smaller.
C3_QIndexNeverDecreases ==
  [][\A c \in Candidates :
       Len(sessions'[c]) = Len(sessions[c]) =>
         \A i \in DOMAIN sessions[c] : sessions'[c][i] >= sessions[c][i]]_vars

\* C4 (SpecSeq): a submit_answer whose transcription came out empty after the
\* retry, or raised, carries status "error" (and only such a request does)
\* and goes on; it appends exactly one Answer Record, with status "error" and
\* the failure text, at its insert step and none elsewhere; it never changes
\* the sessions table; it ends with a 200 response of status "error".
C4_TranscriptionFailureRecovered ==
  [][variant = "strict" =>
       \A r \in ReqIds :
         /\ Begins(r, "submit") =>
              /\ reqs'[r].pc = "upload"
              /\ (reqs'[r].text \in FailureTexts) <=> (reqs'[r].status = "error")
         /\ (reqs[r].op = "submit" /\ reqs[r].status = "error") =>
              LET c == reqs[r].c IN
              /\ sessions' = sessions
              /\ (reqs[r].pc = "insert" /\ InRange(reqs[r].question_index)) =>
                   /\ Len(interviews'[c]) = Len(interviews[c]) + 1
                   /\ SubSeq(interviews'[c], 1, Len(interviews[c])) = interviews[c]
                   /\ interviews'[c][Len(interviews'[c])].status = "error"
                   /\ interviews'[c][Len(interviews'[c])].answer_text = reqs[r].text
                   /\ \A d \in Candidates \ {c} : interviews'[d] = interviews[d]
              /\ reqs[r].pc # "insert" => interviews' = interviews
              /\ reqs[r].pc = "push" =>
                   /\ reqs'[r].op = "idle"
                   /\ out'.op = "submit" /\ out'.http = 200
                   /\ out'.status = "error" /\ out'.answer_text = reqs[r].text]_vars

C4_Witness ==
  /\ variant = "strict"
  /\ out.op = "submit" /\ out.http = 200 /\ out.status = "error"
  /\ out.answer_text = "(Transcription failed)"
  /\ sessions["c1"] = << 0 >>
  /\ Len(interviews["c1"]) = 2
  /\ interviews["c1"][1].answer_text = "(Could not detect speech)"
  /\ interviews["c1"][2].status = "error"

\* C5 (SpecSeq, both variants): when the response sent last was a
\* next_question response for a candidate and the next response is again a
\* next_question response for that candidate (requests are served one at a
\* time, so nothing was requested between the two), the two responses are
\* equal: same done flag, same question_index, same audio_url; and no step of
\* a next_question request changes a session, an Answer Record or a row of
\* "responses".
C5_NextQuestionIdempotent ==
  [][/\ \A r \in ReqIds :
          (out.op = "question" /\ out'.op = "question" /\ out'.c = out.c
           /\ (Ends(r, "question") \/ reqs' = reqs)) => out' = out
     /\ \A r \in ReqIds :
          (reqs[r].op = "question" \/ reqs'[r].op = "question") =>
             UNCHANGED << strictVars, responses >>
     /\ Immediate("question") => UNCHANGED << strictVars, responses >>]_vars

\* The second of two calls in a row is under way: it found the audio cached
\* by the call whose response was the last one sent.
C5_Witness ==
  \E r \in ReqIds :
    /\ reqs[r].op = "question" /\ reqs[r].pc = "serve" /\ reqs[r].exists
    /\ out.op = "question" /\ out.http = 200 /\ ~out.done
    /\ out.c = reqs[r].c /\ out.question_index = reqs[r].idx
    /\ reqs[r].idx = 1

\* C6 (SpecLong): next_question answers done:true exactly when the q_index
\* the session lookup returns is at least the number of questions, and
\* otherwise answers with that index and QUESTIONS[q_index]; after a done
\* response, the next next_question of the candidate is answered done again.
C6_DoneExactlyAtEnd ==
  [][\A r \in ReqIds :
       /\ (Immediate("question") /\ out'.http = 200) =>
            /\ out'.done
            /\ sessions[out'.c] # << >>
            /\ FirstRow(sessions[out'.c]) >= NumQuestions
       /\ Begins(r, "question") =>
            FirstRow(sessions[reqs'[r].c]) < NumQuestions
       /\ Ends(r, "question") =>
            /\ ~out'.done
            /\ out'.question_index = FirstRow(sessions[reqs[r].c])
            /\ out'.question_index < NumQuestions
            /\ out'.question = QUESTIONS[out'.question_index + 1]
       /\ (out.op = "question" /\ out.http = 200 /\ out.done) =>
            /\ (Immediate("question") /\ out'.c = out.c) => out' = out
            /\ ~(Begins(r, "question") /\ reqs'[r].c = out.c)]_vars

\* A candidate started once, six answers, all "ok": q_index is 6 and
\* next_question has answered done:true.
C6_Witness ==
  /\ out = DoneResponse("c1")
  /\ sessions["c1"] = << NumQuestions >>
  /\ Len(interviews_collection["c1"]) = 1
  /\ Len(interviews["c1"]) = NumQuestions
  /\ OkCount("c1") = NumQuestions

\* C7 (SpecSeq): a start_interview answered 404 was for an email that is not
\* in the register and changed no table of either store; a start_interview
\* that goes on was for a registered email and the candidate id registered
\* for it; session rows are added only by such a request.
C7_UnknownEmailRejected ==
  [][variant = "strict" =>
       /\ (Immediate("start") /\ out'.http = 404) =>
            /\ out'.email \notin DOMAIN candidates_collection
            /\ UNCHANGED strictVars
       /\ \A r \in ReqIds :
            Begins(r, "start") =>
              /\ reqs'[r].email \in DOMAIN candidates_collection
              /\ reqs'[r].c = candidates_collection[reqs'[r].email]
              /\ UNCHANGED strictVars
       /\ \A c \in Candidates :
            Len(sessions'[c]) > Len(sessions[c]) =>
              \E r \in ReqIds : reqs[r].op = "start" /\ reqs[r].c = c]_vars

C7_Witness ==
  /\ variant = "strict"
  /\ out = StartNotFound("nobody@x.io")
  /\ sessions = [c \in Candidates |-> << >>]
  /\ candidates = [c \in Candidates |-> 0]
  /\ interviews_collection = [c \in Candidates |-> << >>]

\* C8 (SpecSeq): no step of a finish_interview request changes an Answer
\* Record, a Mongo document, a candidate row or another candidate's session;
\* no step of a get_answers request changes any table; and get_answers
\* returns one [Q, A] pair for every Answer Record of the candidate, in the
\* order they were recorded, whether or not the session still exists.
C8_FinishKeepsAnswers ==
  [][variant = "strict" =>
       /\ \A r \in ReqIds :
            /\ Begins(r, "finish") => UNCHANGED strictVars
            /\ reqs[r].op = "finish" =>
                 /\ UNCHANGED << candidates, interviews, interviews_collection >>
                 /\ \A d \in Candidates \ {reqs[r].c} : sessions'[d] = sessions[d]
                 /\ out'.answers = interviews[reqs[r].c]
            /\ (Begins(r, "answers") \/ reqs[r].op = "answers") => UNCHANGED strictVars
            /\ Ends(r, "answers") => out'.qa = Transcript(interviews[reqs[r].c])
       /\ Immediate("answers") =>
            /\ UNCHANGED strictVars
            /\ out'.qa = Transcript(interviews[out'.c])]_vars

\* get_answers after finish: the session is gone, both answers are returned.
C8_Witness ==
  /\ variant = "strict"
  /\ out.op = "answers" /\ out.c = "c1"
  /\ sessions["c1"] = << >>
  /\ Len(interviews["c1"]) = 2
  /\ out.qa = Transcript(interviews["c1"])

\* C9 (SpecSeq): the last step of finish_interview leaves the candidate
\* without any session row, however many it had; while a candidate has no
\* session row, next_question and submit_answer for it are answered 404 on
\* arrival; and a candidate without session row gets one only by a step of a
\* start_interview request.
C9_NotFoundAfterFinish ==
  [][variant = "strict" =>
       /\ \A r \in ReqIds : Ends(r, "finish") => sessions'[reqs[r].c] = << >>
       /\ \A c \in Candidates :
            sessions[c] = << >> =>
              /\ \A r \in ReqIds :
                   /\ ~(Begins(r, "question") /\ reqs'[r].c = c)
                   /\ ~(Begins(r, "submit") /\ reqs'[r].c = c)
              /\ ((Immediate("question") \/ Immediate("submit")) /\ out'.c = c) =>
                   out'.http = 404
              /\ sessions'[c] # << >> =>
                   \E r \in ReqIds : reqs[r].op = "start" /\ reqs[r].c = c]_vars

\* Two starts, then finish, then next_question: NotFound.
C9_Witness ==
  /\ variant = "strict"
  /\ out = NotFound("question", "c1")
  /\ sessions["c1"] = << >>
  /\ Len(interviews_collection["c1"]) = MaxStarts
  /\ interviews["c1"] = << >>

\* C10 (SpecSeq): no candidate has more than one session row.
C10_AtMostOneSession == \A c \in Candidates : Len(sessions[c]) <= 1

\* C11 (SpecFault): no temporary file of a submit_answer request that has
\* ended is still on disk.
C11_TempFilesRemoved == leaked = 0

\* C12 (SpecFault): in the strict variant a step in which the transcoder
\* fails (the saved upload is the one file left behind) answers the request
\* at once with a 500 and no transcript: no request goes on to transcription
\* or upload, and the bucket, the sessions, the Answer Records and the Mongo
\* documents are as before.
C12_TranscodingFailureFatal ==
  [][(variant = "strict" /\ leaked' = leaked + 1) =>
       /\ reqs' = reqs
       /\ out'.op = "submit" /\ out'.http = 500
       /\ DOMAIN out' = {"op", "c", "http"}
       /\ sessions[out'.c] # << >>
       /\ UNCHANGED << strictVars, bucket, responses >>]_vars

\* A transcoding failure on the first answer of a started candidate.
C12_Witness ==
  /\ variant = "strict"
  /\ out = [op |-> "submit", c |-> "c1", http |-> 500]
  /\ leaked = 1
  /\ sessions["c1"] = << 0 >>
  /\ interviews["c1"] = << >>
  /\ bucket = {}

\* Request r writes its advance while request s, which read the same q_index
\* for the same candidate and was transcribed "ok" too, has recorded its
\* answer and is about to write its own.
RacingAdvance(r, s) ==
  /\ r # s
  /\ reqs[r].op = "submit" /\ reqs[r].pc = "advance"
  /\ reqs[s].op = "submit" /\ reqs[s].pc = "advance"
  /\ reqs[s].c = reqs[r].c
  /\ reqs[s].q_index = reqs[r].q_index
  /\ reqs'[r].op = "idle"

\* C13 as stated (SpecRace): when two submit_answer requests that read the same
\* q_index both advance it, the q_index written is greater than the number
\* of the candidate's "ok" Answer Records.
C13_RaceOverIncrements ==
  [][\A r, s \in ReqIds :
       RacingAdvance(r, s) =>
         \A i \in DOMAIN sessions'[reqs[r].c] :
           sessions'[reqs[r].c][i] > OkCount(reqs[r].c)]_vars

\* C13 amended (SpecRace): when two submit_answer requests that read the same
\* q_index both advance it, both write that q_index plus one: the first
\* write leaves q_index smaller than the number of the candidate's "ok"
\* Answer Records, and a write that finds the session already at the q_index
\* it read plus one leaves it there, still smaller than that number (an
\* advance is lost, none is added).
C13_RaceLosesAdvance ==
  [][\A r, s \in ReqIds :
       /\ RacingAdvance(r, s) =>
            /\ interviews' = interviews
            /\ \A i \in DOMAIN sessions'[reqs[r].c] :
                 /\ sessions'[reqs[r].c][i] = reqs[s].q_index + 1
                 /\ sessions'[reqs[r].c][i] < OkCount(reqs[r].c)
       /\ (/\ reqs[s].op = "submit" /\ reqs[s].pc = "advance"
           /\ reqs'[s].op = "idle"
           /\ sessions[reqs[s].c] # << >>
           /\ FirstRow(sessions[reqs[s].c]) = reqs[s].q_index + 1) =>
            /\ interviews' = interviews
            /\ \A i \in DOMAIN sessions'[reqs[s].c] :
                 /\ sessions'[reqs[s].c][i] = FirstRow(sessions[reqs[s].c])
                 /\ sessions'[reqs[s].c][i] < OkCount(reqs[s].c)]_vars

\* A candidate started once, two "ok" answers recorded, q_index 1: both
\* requests have written 0 + 1.
C13_Witness ==
  /\ NoneInProgress
  /\ Len(interviews_collection["c1"]) = 1
  /\ sessions["c1"] = << 1 >>
  /\ Len(interviews["c1"]) = 2
  /\ OkCount("c1") = 2

\* The index of a question text in QUESTIONS (zero-based).
IndexOfQuestion(q) == (CHOOSE i \in DOMAIN QUESTIONS : QUESTIONS[i] = q) - 1

\* C14 (SpecOrder): the answers returned by get_answers are ordered by
\* question index: in the strict variant the [Q, A] pairs of qa, in the
\* permissive variant the rows, whose flat transcript is returned with them.
C14_TranscriptOrdered ==
  out.op = "answers" =>
    IF variant = "strict"
      THEN \A i, j \in DOMAIN out.qa :
             i < j => IndexOfQuestion(out.qa[i][1][2]) <= IndexOfQuestion(out.qa[j][1][2])
      ELSE /\ \A i, j \in DOMAIN out.answers :
                i < j => out.answers[i].q_index <= out.answers[j].q_index
           /\ "transcript" \in DOMAIN out =>
                out.transcript = FlatTranscript(out.answers)

\* The texts the permissive variant stores for a failed transcription.
PFailureTexts == {"(transcription failed)", "(Could not detect speech)"}

\* C15 (SpecSeq): in the permissive variant a submit_answer whose
\* transcription raised or was empty, and which completes, answers with
\* status "error" and leaves the index the next next_question returns as it
\* was.
C15_PermissiveErrorNoAdvance ==
  [][\A r \in ReqIds :
       (/\ variant = "permissive"
        /\ Ends(r, "submit")
        /\ reqs[r].text \in PFailureTexts
        /\ out'.http = 200) =>
         /\ out'.status = "error"
         /\ NextIdx(reqs[r].c)' = NextIdx(reqs[r].c)]_vars

\* C16 (SpecOrder): in the strict variant a submit_answer for a candidate with
\* a session is taken on whatever question_index it carries (the only
\* submit_answer answered on arrival is the 404 for a candidate without
\* session); the Answer Record it inserts has the question text of the
\* question_index supplied; and its advance writes the q_index it read on
\* arrival plus one.
C16_SuppliedIndexUnchecked ==
  [][variant = "strict" =>
       /\ Immediate("submit") => (sessions[out'.c] = << >> /\ out'.http = 404)
       /\ \A r \in ReqIds :
            /\ Begins(r, "submit") =>
                 reqs'[r].q_index = FirstRow(sessions[reqs'[r].c])
            /\ (reqs[r].op = "submit" /\ reqs[r].pc = "insert"
                 /\ InRange(reqs[r].question_index)) =>
                 LET c == reqs[r].c IN
                 /\ reqs'[r].op = "submit"
                 /\ Len(interviews'[c]) = Len(interviews[c]) + 1
                 /\ interviews'[c][Len(interviews'[c])].question =
                      QUESTIONS[reqs[r].question_index + 1]
            /\ (reqs[r].op = "submit" /\ reqs[r].pc = "advance") =>
                 \A i \in DOMAIN sessions'[reqs[r].c] :
                   sessions'[reqs[r].c][i] = reqs[r].q_index + 1]_vars

\* Question 1 was answered while the session was at 0: the record has the
\* text of question 1 and q_index went to 1, not to 2.
C16_Witness ==
  /\ variant = "strict"
  /\ out.op = "submit" /\ out.http = 200 /\ out.status = "ok"
  /\ Len(interviews["c1"]) = 1
  /\ interviews["c1"][1].question = QUESTIONS[2]
  /\ sessions["c1"] = << 1 >>

\* C17 (SpecAsk): the synthesis service is invoked at most once for every
\* pair of candidate and question index.
C17_SynthesisAtMostOnce == \A k \in DOMAIN tts_calls : tts_calls[k] <= 1

\* C18 (SpecRace, Spec): in the strict variant no session row has a q_index greater
\* than the number of the candidate's Answer Records with status "ok".
C18_QIndexAtMostOkCount ==
  \A c \in Candidates :
    \A i \in DOMAIN sessions[c] : sessions[c][i] <= OkCount(c)

\* An advance has been lost and one more is about to be: two "ok" answers
\* are recorded, the session is at 1, and a request that read 0 is still to
\* write.
C18_Witness ==
  \E r \in ReqIds :
    /\ reqs[r].op = "submit" /\ reqs[r].pc = "advance" /\ reqs[r].q_index = 0
    /\ sessions["c1"] = << 1 >>
    /\ OkCount("c1") = 2

\* C19 (SpecLong): in the strict variant every session row's q_index lies
\* between 0 and the number of questions.
C19_QIndexInRange ==
  \A c \in Candidates :
    \A i \in DOMAIN sessions[c] : sessions[c][i] \in 0..NumQuestions

\* The qa list of the candidate's Mongo document (the one find_one returns).
QaOf(c) ==
  IF interviews_collection[c] = << >> THEN << >> ELSE interviews_collection[c][1].qa

\* C20 (Spec): whenever no request is in progress, the qa list of the
\* candidate's Mongo document equals, in length and in order, the [Q, A]
\* pairs of the candidate's rows in Supabase "interviews".
C20_StoresAgree ==
  NoneInProgress => \A c \in Candidates : QaOf(c) = Transcript(interviews[c])

\* C21 (SpecFault): in the strict variant a submit_answer for a candidate
\* without session row (never started, or finished) is answered 404 in the
\* step it arrives in, and that step leaves no temporary file, uploads
\* nothing, and changes no table of either store; no submit_answer request
\* gets past its arrival for such a candidate.
C21_NoSessionNoSideEffect ==
  [][variant = "strict" =>
       /\ (Immediate("submit") /\ sessions[out'.c] = << >>) =>
            /\ out' = [op |-> "submit", c |-> out'.c, http |-> 404]
            /\ UNCHANGED << strictVars, responses, bucket, static_files,
                            leaked >>
       /\ \A r \in ReqIds :
            Begins(r, "submit") => sessions[reqs'[r].c] # << >>
       /\ leaked' # leaked =>
            \E c \in Candidates :
              /\ sessions[c] # << >>
              /\ out'.c = c \/ \E r \in ReqIds : reqs[r].op = "submit" /\ reqs[r].c = c]_vars

\* submit_answer after finish_interview: 404, the answer recorded before
\* is still the only one, nothing was uploaded or left on disk for it.
C21_Witness ==
  /\ variant = "strict"
  /\ out = [op |-> "submit", c |-> "c1", http |-> 404]
  /\ sessions["c1"] = << >>
  /\ Len(interviews_collection["c1"]) = 1
  /\ Len(interviews["c1"]) = 1
  /\ Uploaded("c1") = 1
  /\ leaked = 0

====
